---- MODULE Spec2Model ----
(***************************************************************************)
(* Conway's Game of Life (SteveDaulton/ConwaysGameOfLife).                 *)
(*                                                                         *)
(* The model follows src/game_of_life/gol.py: the preset catalog built by  *)
(* get_preset (which appends a freshly drawn 'Random' preset to the module *)
(* level list PRESETS on every call), the Universe singleton and its       *)
(* __init__, Universe.update, neighbours, cell_in_range and the tail of    *)
(* the main loop (universe_old / live_cells).                              *)
(***************************************************************************)
EXTENDS Integers, Sequences, FiniteSets, TLC

(* ----------------------------- bounds ---------------------------------- *)
\* Largest number of get_preset calls in one run (each call grows PRESETS).
MaxCalls == 2
\* Largest number of main-loop iterations in one run.
MaxGen == 3
\* Largest height / width of the bounds given to cell_in_range on its own.
MaxProbeSize == 4
\* Longest text handed to a validator that parses its argument.
MaxStrLen == 3
\* Largest number of answers typed at one menu prompt loop.
MaxInputs == 3

(* --------------------------- custom_types.py --------------------------- *)
Point(y, x) == [y |-> y, x |-> x]

Size(y, x) == [y |-> y, x |-> x]

Preset(idx, name, cells) == [idx |-> idx, name |-> name, cells |-> cells]

(* ------------------------------ presets.py ----------------------------- *)
StaticPresets ==
  <<
    Preset(0, "Block", {
        Point(7, 7), Point(7, 8), Point(8, 7), Point(8, 8)}),
    Preset(1, "Beehive", {
        Point(6, 10), Point(6, 11), Point(7, 9), Point(7, 12), Point(8, 10), Point(8, 11)}),
    Preset(2, "Beacon", {
        Point(2, 2), Point(2, 3), Point(3, 2), Point(3, 3), Point(4, 4), Point(4, 5),
        Point(5, 4), Point(5, 5)}),
    Preset(3, "Glider", {
        Point(2, 3), Point(3, 4), Point(4, 2), Point(4, 3), Point(4, 4)}),
    Preset(4, "R-pentomino", {
        Point(10, 51), Point(10, 52), Point(11, 50), Point(11, 51), Point(12, 51)}),
    Preset(5, "Pulsar", {
        Point(1, 5), Point(1, 11), Point(2, 5), Point(2, 11), Point(3, 5), Point(3, 6),
        Point(3, 10), Point(3, 11), Point(5, 1), Point(5, 2), Point(5, 3), Point(5, 6),
        Point(5, 7), Point(5, 9), Point(5, 10), Point(5, 13), Point(5, 14), Point(5, 15),
        Point(6, 3), Point(6, 5), Point(6, 7), Point(6, 9), Point(6, 11), Point(6, 13),
        Point(7, 5), Point(7, 6), Point(7, 10), Point(7, 11), Point(9, 5), Point(9, 6),
        Point(9, 10), Point(9, 11), Point(10, 3), Point(10, 5), Point(10, 7),
        Point(10, 9), Point(10, 11), Point(10, 13), Point(11, 1), Point(11, 2),
        Point(11, 3), Point(11, 6), Point(11, 7), Point(11, 9), Point(11, 10),
        Point(11, 13), Point(11, 14), Point(11, 15), Point(13, 5), Point(13, 6),
        Point(13, 10), Point(13, 11), Point(14, 5), Point(14, 11), Point(15, 5),
        Point(15, 11)}),
    Preset(6, "Penadecathlon", {
        Point(4, 5), Point(5, 4), Point(5, 6), Point(6, 3), Point(6, 7), Point(7, 3),
        Point(7, 7), Point(8, 3), Point(8, 7), Point(9, 3), Point(9, 7), Point(10, 3),
        Point(10, 7), Point(11, 3), Point(11, 7), Point(12, 4), Point(12, 6), Point(13, 5)})
  >>

(* ----------------------------- constants.py ---------------------------- *)
\* Python numbers: an int or float n / d (d a power of ten), nan, or an
\* infinity (n its sign).
Num(n, d) == [kind |-> "num", n |-> n, d |-> d]

NaN == [kind |-> "nan", n |-> 0, d |-> 1]

Inf(sign) == [kind |-> "inf", n |-> sign, d |-> 1]

\* DEFAULTS = Defaults(universe_size=Size(y=40, x=80), preset=4, refresh_rate=0.5)
DEFAULTS == [universe_size |-> Size(40, 80), preset |-> 4, refresh_rate |-> Num(5, 10)]

\* REFRESH_RATE_RANGE = {'min': 0, 'max': 10}
REFRESH_RATE_RANGE == [min |-> Num(0, 1), max |-> Num(10, 1)]

\* len(PRESETS) as written in presets.py, before any get_preset call.
NStatic == Len(StaticPresets)

(* -------------------------------- state -------------------------------- *)
VARIABLES
  PRESETS,       \* presets.PRESETS, the module-level list get_preset appends to
  instance,      \* Universe._instance: 0 for None, else the number of the object
  allocated,     \* how many Universe objects super().__new__ has created
  universe,      \* the object the latest Universe(...) expression returned (0: none yet)
  initialized,   \* Universe._initialized
  display_size,  \* universe.display_size (Size(0, 0) while the attribute is unset)
  live_cells,    \* universe.live_cells   ({} while the attribute is unset)
  universe_old,  \* main's local universe_old
  generation,    \* number of completed main-loop iterations
  seed_kept,     \* cells of the seeding preset that __init__ put into live_cells
  seed_dropped,  \* cells of the seeding preset that __init__ filtered out
  ret,           \* outcome of the latest get_preset / Universe(...) / update call
  menu,          \* menu.get_user_preset_choice: position, answers read, lines printed
  start,         \* __main__.main up to play(): menu shown, answers read, id accepted
  loop,          \* gol.main: position in the loop, the pad, locals of update()
  pure           \* outcome of the latest stand-alone call of a pure function

vars == <<PRESETS, instance, allocated, universe, initialized, display_size, live_cells,
          universe_old, generation, seed_kept, seed_dropped, ret, menu, start, loop, pure>>

universe_vars == <<instance, allocated, universe, initialized, display_size, live_cells,
                   seed_kept, seed_dropped>>

(* ------------------- values passed as 'choice' ------------------------- *)
\* Python is dynamically typed: choice may be an int, a str or a float.
IntChoice(v) == [type |-> "int", val |-> v]

StrChoice == [type |-> "str", val |-> 0]

\* A float, kept in tenths (15 stands for 1.5).
FloatChoice(tenths) == [type |-> "float", val |-> tenths]

NoChoice == [type |-> "none", val |-> 0]

NoPreset == Preset(-1, "", {})

\* What a call produced: a Preset, the catalog list (an alias of PRESETS),
\* a set of cells, nothing, or a raised exception.
Result(kind, err, preset) == [kind |-> kind, err |-> err, preset |-> preset]

Raised(err) == Result("error", err, NoPreset)

(* ------------------------------- gol.py -------------------------------- *)
\* GameOfLifeUI._pad_size, returned by GameOfLifeUI.display_pad_size().
display_pad_size == Size(40, 100)

\* neighbours with the fifth point mistyped as the cell itself.
neighbours_yields_centre(point) ==
  LET y == point.y
      x == point.x
  IN  << Point(y - 1, x - 1),
         Point(y, x - 1),
         Point(y + 1, x - 1),
         Point(y - 1, x),
         Point(y, x),
         Point(y - 1, x + 1),
         Point(y, x + 1),
         Point(y + 1, x + 1) >>

neighbours(point) ==
  LET y == point.y
      x == point.x
  IN  << Point(y - 1, x - 1),
         Point(y, x - 1),
         Point(y + 1, x - 1),
         Point(y - 1, x),
         Point(y + 1, x),
         Point(y - 1, x + 1),
         Point(y, x + 1),
         Point(y + 1, x + 1) >>

\* cell_in_range with the upper ends of both ranges off by one.
cell_in_range_upper_inclusive(pad_size, cell) ==
  /\ pad_size.y >= cell.y /\ cell.y >= 0
  /\ pad_size.x >= cell.x /\ cell.x >= 0

cell_in_range(pad_size, cell) ==
  /\ pad_size.y - 1 >= cell.y /\ cell.y >= 0
  /\ pad_size.x - 1 >= cell.x /\ cell.x >= 0

\* update counting the neighbours against the candidate set.
update_counts_candidates(cells, size) ==
  LET cell_set == cells \cup UNION {{neighbours(cell)[i] : i \in 1..8} : cell \in cells}
      live_count(cell) == Cardinality({i \in 1..8 : neighbours(cell)[i] \in cell_set})
  IN  {cell \in cell_set :
         /\ \/ live_count(cell) = 3
            \/ live_count(cell) = 2 /\ cell \in cells
         /\ cell_in_range(size, cell)}

\* update without the cell_in_range test on its output.
update_unbounded(cells, size) ==
  LET cell_set == cells \cup UNION {{neighbours(cell)[i] : i \in 1..8} : cell \in cells}
      live_count(cell) == Cardinality({i \in 1..8 : neighbours(cell)[i] \in cells})
  IN  {cell \in cell_set :
         \/ live_count(cell) = 3
         \/ live_count(cell) = 2 /\ cell \in cells}

\* update rejecting the last row and the last column of the pad.
update_strict_bounds(cells, size) ==
  LET cell_set == cells \cup UNION {{neighbours(cell)[i] : i \in 1..8} : cell \in cells}
      live_count(cell) == Cardinality({i \in 1..8 : neighbours(cell)[i] \in cells})
  IN  {cell \in cell_set :
         /\ \/ live_count(cell) = 3
            \/ live_count(cell) = 2 /\ cell \in cells
         /\ size.y - 1 > cell.y /\ cell.y >= 0
         /\ size.x - 1 > cell.x /\ cell.x >= 0}

\* update in which dead cells are never born.
update_no_birth(cells, size) ==
  LET cell_set == cells \cup UNION {{neighbours(cell)[i] : i \in 1..8} : cell \in cells}
      live_count(cell) == Cardinality({i \in 1..8 : neighbours(cell)[i] \in cells})
  IN  {cell \in cell_set :
         /\ (live_count(cell) = 3 \/ live_count(cell) = 2) /\ cell \in cells
         /\ cell_in_range(size, cell)}

\* update in which a cell that should live outside the pad comes back on the
\* opposite edge.
update_wraps(cells, size) ==
  LET cell_set == cells \cup UNION {{neighbours(cell)[i] : i \in 1..8} : cell \in cells}
      live_count(cell) == Cardinality({i \in 1..8 : neighbours(cell)[i] \in cells})
  IN  {Point(cell.y % size.y, cell.x % size.x) : cell \in
         {cell \in cell_set :
            \/ live_count(cell) = 3
            \/ live_count(cell) = 2 /\ cell \in cells}}

\* Universe.update: the candidate set is the live cells and all their
\* neighbours; neighbours are counted against the live cells.
update(cells, size) ==
  LET cell_set == cells \cup UNION {{neighbours(cell)[i] : i \in 1..8} : cell \in cells}
      live_count(cell) == Cardinality({i \in 1..8 : neighbours(cell)[i] \in cells})
  IN  {cell \in cell_set :
         /\ \/ live_count(cell) = 3
            \/ live_count(cell) = 2 /\ cell \in cells
         /\ cell_in_range(size, cell)}

\* The candidate outcomes of the random draws that the model follows, all
\* next to the bottom-right corner of the pad, where seeding and update meet
\* the bounds: the corner alone, the corner with two live neighbours, three
\* cells in a row on the bottom edge; and candidates that randint's ranges
\* must exclude: no cell at all, a cell one row below the pad, a cell one
\* column right of it, the corner with its coordinates swapped.
RandomDraws ==
  LET h == display_pad_size.y
      w == display_pad_size.x
  IN  { {Point(h - 1, w - 1)},
        {Point(h - 1, w - 2), Point(h - 1, w - 1), Point(h - 2, w - 1)},
        {Point(h - 1, w - 3), Point(h - 1, w - 2), Point(h - 1, w - 1)},
        {},
        {Point(h, w - 1)},
        {Point(h - 1, w)},
        {Point(w - 1, h - 1)} }

\* random_cells with max_x and max_y not lowered by one.
random_cells_no_decrement ==
  LET max_x == display_pad_size.y
      max_y == display_pad_size.x
  IN  {S \in RandomDraws :
         /\ S # {} /\ Cardinality(S) <= max_x * max_y
         /\ \A p \in S : p.y \in 0..max_x /\ p.x \in 0..max_y}

\* set(Point(randint(0, max_x), randint(0, max_y)) for _ in range(randint(1, max_x * max_y)))
\* with max_x, max_y = display_pad_size() each lowered by one: a non-empty set of
\* at most max_x * max_y points Point(0..max_x, 0..max_y).
random_cells ==
  LET max_x == display_pad_size.y - 1
      max_y == display_pad_size.x - 1
  IN  {S \in RandomDraws :
         /\ S # {} /\ Cardinality(S) <= max_x * max_y
         /\ \A p \in S : p.y \in 0..max_x /\ p.x \in 0..max_y}

\* random_id without the increment.
random_id_no_increment(presets) == presets[Len(presets)].idx

\* random_id = presets[-1][0] + 1
random_id(presets) == presets[Len(presets)].idx + 1

\* presets.append(Preset(random_id, 'Random', ...)) on the list aliased by PRESETS
append_random(presets, cells) ==
  Append(presets, Preset(random_id(presets), "Random", cells))

\* get_preset without the 'choice >= 0' guard: presets[choice] with Python's
\* negative indices counting from the end of the list.
get_preset_return_wraps(choice, presets) ==
  IF choice.type # "int" THEN Raised("TypeError")
  ELSE IF choice.val >= 0
    THEN IF choice.val < Len(presets)
           THEN Result("preset", "", presets[choice.val + 1])
           ELSE Raised("IndexError")
  ELSE IF -choice.val <= Len(presets)
    THEN Result("preset", "", presets[Len(presets) + choice.val + 1])
    ELSE Raised("IndexError")

\* if choice >= 0: return presets[choice] / return presets
get_preset_return(choice, presets) ==
  IF choice.type = "str" THEN Raised("TypeError")
  ELSE IF choice.type = "float"
    THEN IF choice.val >= 0 THEN Raised("TypeError")
                            ELSE Result("catalog", "", NoPreset)
  ELSE IF choice.val >= 0
    THEN IF choice.val < Len(presets)
           THEN Result("preset", "", presets[choice.val + 1])
           ELSE Raised("IndexError")
  ELSE Result("catalog", "", NoPreset)

\* The cells Universe.__init__ keeps from the chosen preset.
init_cells(size, preset) == {cell \in preset.cells : cell_in_range(size, cell)}

(* ------------------ text handed to int() and float() -------------------- *)
\* Text is a sequence of characters.  The characters the model types: three
\* digits, the point, the minus sign, the blank and a letter.
Alphabet == {"0", "1", "9", ".", "-", " ", "x"}

Texts == UNION {[1..k -> Alphabet] : k \in 0..MaxStrLen}

Digits == {"0", "1", "2", "3", "4", "5", "6", "7", "8", "9"}

IsDigit(ch) == ch \in Digits

DigitValue(ch) ==
  CASE ch = "0" -> 0 [] ch = "1" -> 1 [] ch = "2" -> 2 [] ch = "3" -> 3
    [] ch = "4" -> 4 [] ch = "5" -> 5 [] ch = "6" -> 6 [] ch = "7" -> 7
    [] ch = "8" -> 8 [] ch = "9" -> 9

RECURSIVE strip_left(_)
strip_left(text) ==
  IF text # <<>> /\ Head(text) = " " THEN strip_left(Tail(text)) ELSE text

RECURSIVE strip_right(_)
strip_right(text) ==
  IF text # <<>> /\ text[Len(text)] = " "
    THEN strip_right(SubSeq(text, 1, Len(text) - 1))
    ELSE text

\* str.strip(), which int() and float() apply to their argument.
strip(text) == strip_right(strip_left(text))

RECURSIVE digits_value(_)
digits_value(ds) ==
  IF ds = <<>> THEN 0
  ELSE 10 * digits_value(SubSeq(ds, 1, Len(ds) - 1)) + DigitValue(ds[Len(ds)])

RECURSIVE pow10(_)
pow10(k) == IF k = 0 THEN 1 ELSE 10 * pow10(k - 1)

\* int(text): blanks stripped, an optional minus sign, then digits only;
\* anything else is a ValueError (ok = FALSE).
python_int(text) ==
  LET t == strip(text)
      neg == t # <<>> /\ Head(t) = "-"
      body == IF neg THEN Tail(t) ELSE t
  IN  IF body # <<>> /\ \A i \in 1..Len(body) : IsDigit(body[i])
        THEN [ok |-> TRUE,
              value |-> IF neg THEN -digits_value(body) ELSE digits_value(body)]
        ELSE [ok |-> FALSE, value |-> 0]

\* float(text): blanks stripped, an optional minus sign, then 'nan', 'inf'
\* or digits with at most one point and at least one digit; anything else
\* is a ValueError (ok = FALSE).
python_float(text) ==
  LET t == strip(text)
      neg == t # <<>> /\ Head(t) = "-"
      sign == IF neg THEN -1 ELSE 1
      body == IF neg THEN Tail(t) ELSE t
      dots == {i \in 1..Len(body) : body[i] = "."}
      ds == SelectSeq(body, IsDigit)
      frac == IF dots = {} THEN 0 ELSE Len(body) - (CHOOSE i \in dots : TRUE)
  IN  IF body = <<"n", "a", "n">> THEN [ok |-> TRUE, value |-> NaN]
      ELSE IF body = <<"i", "n", "f">> THEN [ok |-> TRUE, value |-> Inf(sign)]
      ELSE IF /\ \A i \in 1..Len(body) : IsDigit(body[i]) \/ body[i] = "."
              /\ Cardinality(dots) <= 1
              /\ ds # <<>>
        THEN [ok |-> TRUE, value |-> Num(sign * digits_value(ds), pow10(frac))]
        ELSE [ok |-> FALSE, value |-> NaN]

\* a <= b on Python numbers: every comparison with nan is False.
float_le(a, b) ==
  IF a.kind = "nan" \/ b.kind = "nan" THEN FALSE
  ELSE IF a.kind = "inf" THEN a.n < 0 \/ (b.kind = "inf" /\ b.n > 0)
  ELSE IF b.kind = "inf" THEN b.n > 0
  ELSE a.n * b.d <= b.n * a.d

(* ------------------------------- inputs -------------------------------- *)
Choices ==
  {IntChoice(v) : v \in -2 .. NStatic + MaxCalls + 1}
    \cup {StrChoice, FloatChoice(15)}

\* get_user_preset_choice before it is called: nothing read, nothing
\* printed, nothing returned (returned = -1).
MenuIdle == [pc |-> "idle", valid_indices |-> {}, inputs |-> <<>>, out |-> <<>>,
             returned |-> -1]

\* __main__.main before its first statement: nothing printed, nothing read,
\* no id accepted (accepted = -1), no exception.
StartIdle == [pc |-> "begin", path |-> "none", shown |-> {}, valid_indices |-> {},
              inputs |-> <<>>, out |-> <<>>, accepted |-> -1, error |-> ""]

\* gol.main before it is called: an empty pad, nothing cleared, drawn or
\* refreshed yet.
LoopIdle == [pc |-> "idle", pad |-> {}, cell_set |-> {}, new_cells |-> {},
             ascending |-> TRUE, drawn |-> <<>>, cleared |-> <<>>, frames |-> <<>>,
             error |-> ""]

NoCall == [fn |-> "none", size |-> Size(0, 0), cell |-> Point(0, 0), result |-> FALSE]

Init ==
  /\ PRESETS = StaticPresets
  /\ instance = 0
  /\ allocated = 0
  /\ universe = 0
  /\ initialized = FALSE
  /\ display_size = Size(0, 0)
  /\ live_cells = {}
  /\ universe_old = {}
  /\ generation = 0
  /\ seed_kept = {}
  /\ seed_dropped = {}
  /\ ret = [op |-> "none", choice |-> NoChoice, res |-> Result("none", "", NoPreset)]
  /\ menu = MenuIdle
  /\ start = StartIdle
  /\ loop = LoopIdle
  /\ pure = NoCall

(* ------------------------------- actions ------------------------------- *)
\* get_preset(choice), as called by display_menu, get_user_choice and
\* __main__.valid_preset_id (choice defaults to -1).
GetPreset(choice) ==
  /\ Len(PRESETS) < NStatic + MaxCalls
  /\ \E cells \in random_cells :
       /\ PRESETS' = append_random(PRESETS, cells)
       /\ ret' = [op |-> "get_preset", choice |-> choice,
                  res |-> get_preset_return(choice, PRESETS')]
  /\ UNCHANGED <<universe_vars, universe_old, generation, pure, menu, start, loop>>

\* Universe.__new__ creating an object on every call.
Universe_new_always(inst, alloc) == [instance |-> alloc + 1, allocated |-> alloc + 1]

\* Universe.__new__: the object that becomes cls._instance and is returned,
\* and the number of objects created so far.
Universe_new(inst, alloc) ==
  IF inst = 0 THEN [instance |-> alloc + 1, allocated |-> alloc + 1]
              ELSE [instance |-> inst, allocated |-> alloc]

\* Universe(choice): __new__ followed by __init__, on a PRESETS list of fewer
\* than max_presets entries.
Universe_call(choice, max_presets) ==
  /\ instance' = Universe_new(instance, allocated).instance
  /\ allocated' = Universe_new(instance, allocated).allocated
  /\ IF initialized
       THEN /\ ret' = [op |-> "Universe", choice |-> choice,
                       res |-> Result("none", "", NoPreset)]
            /\ universe' = instance'
            /\ UNCHANGED <<PRESETS, initialized, display_size, live_cells,
                           seed_kept, seed_dropped>>
       ELSE /\ Len(PRESETS) < max_presets
            /\ \E cells \in random_cells :
                 /\ PRESETS' = append_random(PRESETS, cells)
                 /\ LET got == get_preset_return(choice, PRESETS')
                    IN  IF got.kind = "preset"
                          THEN /\ display_size' = display_pad_size
                               /\ live_cells' = init_cells(display_size', got.preset)
                               /\ initialized' = TRUE
                               /\ seed_kept' = live_cells'
                               /\ seed_dropped' = got.preset.cells \ live_cells'
                               /\ universe' = instance'
                               /\ ret' = [op |-> "Universe", choice |-> choice, res |-> got]
                          ELSE /\ ret' = [op |-> "Universe", choice |-> choice,
                                          res |-> IF got.kind = "catalog"
                                                    THEN Raised("AssertionError")
                                                    ELSE got]
                               /\ UNCHANGED <<universe, initialized, display_size,
                                              live_cells, seed_kept, seed_dropped>>

\* Universe(choice) called on its own.
UniverseCall(choice) ==
  /\ Universe_call(choice, NStatic + MaxCalls)
  /\ UNCHANGED <<universe_old, generation, pure, menu, start, loop>>

\* The loop tail computing the next generation from the generation before
\* the current one.
Step_from_universe_old ==
  /\ initialized
  /\ generation < MaxGen
  /\ universe_old' = live_cells
  /\ live_cells' = update(universe_old, display_size)
  /\ generation' = generation + 1
  /\ ret' = [op |-> "update", choice |-> NoChoice, res |-> Result("cells", "", NoPreset)]
  /\ UNCHANGED <<PRESETS, instance, allocated, universe, initialized, display_size,
                 seed_kept, seed_dropped, pure, menu, start, loop>>

\* The tail of one iteration of main's loop:
\* universe_old = universe.live_cells; universe.live_cells = universe.update()
Step ==
  /\ initialized
  /\ generation < MaxGen
  /\ universe_old' = live_cells
  /\ live_cells' = update(live_cells, display_size)
  /\ generation' = generation + 1
  /\ ret' = [op |-> "update", choice |-> NoChoice, res |-> Result("cells", "", NoPreset)]
  /\ UNCHANGED <<PRESETS, instance, allocated, universe, initialized, display_size,
                 seed_kept, seed_dropped, pure, menu, start, loop>>

\* __main__.valid_preset_id(value: str), the argparse type of --preset.
\* get_preset() is called once in the range test (not for a negative value,
\* 'or' short-circuits) and once more in each error message; draw1 and draw2
\* are the Random cells of these calls.
main_valid_preset_id(text, presets, draw1, draw2) ==
  LET parsed == python_int(text)
      int_value == parsed.value
      once == append_random(presets, draw1)
      twice == append_random(once, draw2)
  IN  IF ~parsed.ok
        THEN [presets |-> once, choice |-> StrChoice,
              res |-> Raised("ArgumentTypeError")]
      ELSE IF int_value < 0
        THEN [presets |-> once, choice |-> IntChoice(int_value),
              res |-> Raised("ArgumentTypeError")]
      ELSE IF int_value >= Len(once)
        THEN [presets |-> twice, choice |-> IntChoice(int_value),
              res |-> Raised("ArgumentTypeError")]
      ELSE [presets |-> once, choice |-> IntChoice(int_value),
            res |-> Result("value", "", NoPreset)]

\* The text given to --preset on the command line.
IdTexts == {<<"-", "1">>, <<"0">>, <<"7">>, <<"8">>, <<"x">>}

\* argparse applying valid_preset_id while __main__.main parses the command
\* line, before play() constructs the Universe.
ValidPresetId(text) ==
  /\ ~initialized
  /\ \E draw1 \in random_cells, draw2 \in random_cells :
       LET out == main_valid_preset_id(text, PRESETS, draw1, draw2)
       IN  /\ Len(out.presets) <= NStatic + MaxCalls
           /\ PRESETS' = out.presets
           /\ ret' = [op |-> "valid_preset_id", choice |-> out.choice, res |-> out.res]
  /\ UNCHANGED <<universe_vars, universe_old, generation, pure, menu, start, loop>>

Next ==
  \/ \E choice \in Choices : GetPreset(choice)
  \/ \E choice \in Choices : UniverseCall(choice)
  \/ \E text \in IdTexts : ValidPresetId(text)
  \/ Step

Spec == Init /\ [][Next]_vars

(* ----------------------- validate.py, __main__.py ------------------------ *)
\* What a validator produced: the accepted value or a raised exception.
Accepted(value) == [kind |-> "ok", err |-> "", value |-> value]

Rejected(err) == [kind |-> "error", err |-> err, value |-> NaN]

\* validate.valid_refresh_rate with the upper end of the range excluded.
valid_refresh_rate_below_max(value) ==
  LET fastest == REFRESH_RATE_RANGE.min
      slowest == REFRESH_RATE_RANGE.max
  IN  IF ~(float_le(fastest, value) /\ float_le(value, slowest) /\ value # slowest)
        THEN Rejected("ValueError")
        ELSE Accepted(value)

\* validate.valid_refresh_rate(value: float)
valid_refresh_rate(value) ==
  LET fastest == REFRESH_RATE_RANGE.min
      slowest == REFRESH_RATE_RANGE.max
  IN  IF ~(float_le(fastest, value) /\ float_le(value, slowest))
        THEN Rejected("ValueError")
        ELSE Accepted(value)

\* validate.valid_refresh_rate_string(value: str)
valid_refresh_rate_string(text) ==
  IF python_float(text).ok
    THEN valid_refresh_rate(python_float(text).value)
    ELSE Rejected("ValueError")

\* __main__.valid_refresh_rate(value: str)
main_valid_refresh_rate(text) ==
  LET parsed == python_float(text)
      float_value == parsed.value
  IN  IF parsed.ok
        THEN IF ~(float_le(Num(0, 1), float_value) /\ float_le(float_value, Num(10, 1)))
               THEN Rejected("ArgumentTypeError")
               ELSE Accepted(float_value)
        ELSE Rejected("ArgumentTypeError")

(* ---------------- cell_in_range called on its own ----------------------- *)
\* Bounds handed to cell_in_range: every small Size, the pad size and the
\* Size(100, 100) of the documented examples.
ProbeSizes ==
  {Size(h, w) : h \in 1..MaxProbeSize, w \in 1..MaxProbeSize}
    \cup {display_pad_size, Size(100, 100)}

\* Coordinates on both sides of the two ends of a range of length n.
ProbeCoords(n) == {-2, -1, 0, 1} \cup {n - 2, n - 1, n, n + 1}

CallCellInRange(size, cell) ==
  /\ pure = NoCall
  /\ pure' = [fn |-> "cell_in_range", size |-> size, cell |-> cell,
              result |-> cell_in_range(size, cell)]
  /\ UNCHANGED <<PRESETS, universe_vars, universe_old, generation, ret, menu, start, loop>>

\* list(neighbours(point)) for a point inside, on the edge of or outside the pad.
CallNeighbours(point) ==
  /\ pure = NoCall
  /\ pure' = [fn |-> "neighbours", size |-> Size(0, 0), cell |-> point,
              result |-> neighbours(point)]
  /\ UNCHANGED <<PRESETS, universe_vars, universe_old, generation, ret, menu, start, loop>>

\* Numbers handed to validate.valid_refresh_rate: whole seconds and
\* hundredths of a second around both ends of the range, nan and infinities.
FloatSamples ==
  {Num(n, 1) : n \in -2..12}
    \cup {Num(n, 100) : n \in {-1, 1, 50, 999, 1000, 1001}}
    \cup {NaN, Inf(1), Inf(-1)}

\* Text handed to the validators that parse: every text over the alphabet
\* and the spellings of nan and the infinities.
FloatTexts ==
  Texts \cup {<<"n", "a", "n">>, <<"i", "n", "f">>, <<"-", "i", "n", "f">>}

CallValidRefreshRate(value) ==
  /\ pure = NoCall
  /\ pure' = [fn |-> "valid_refresh_rate", arg |-> value,
              result |-> valid_refresh_rate(value)]
  /\ UNCHANGED <<PRESETS, universe_vars, universe_old, generation, ret, menu, start, loop>>

CallValidRefreshRateString(text) ==
  /\ pure = NoCall
  /\ pure' = [fn |-> "valid_refresh_rate_string", arg |-> text,
              result |-> valid_refresh_rate_string(text)]
  /\ UNCHANGED <<PRESETS, universe_vars, universe_old, generation, ret, menu, start, loop>>

CallMainValidRefreshRate(text) ==
  /\ pure = NoCall
  /\ pure' = [fn |-> "__main__.valid_refresh_rate", arg |-> text,
              result |-> main_valid_refresh_rate(text)]
  /\ UNCHANGED <<PRESETS, universe_vars, universe_old, generation, ret, menu, start, loop>>

NextPure ==
  \/ \E value \in FloatSamples : CallValidRefreshRate(value)
  \/ \E text \in FloatTexts : CallValidRefreshRateString(text)
  \/ \E text \in FloatTexts : CallMainValidRefreshRate(text)
  \/ \E size \in ProbeSizes :
       \E r \in ProbeCoords(size.y), c \in ProbeCoords(size.x) :
         CallCellInRange(size, Point(r, c))
  \/ \E r \in ProbeCoords(display_pad_size.y), c \in ProbeCoords(display_pad_size.x) :
       CallNeighbours(Point(r, c))

SpecPure == Init /\ [][NextPure]_vars

(* -------------------------------- menu.py -------------------------------- *)
\* constants.random_preset(random_id, pad_size): the Random presets it can
\* return for the draws the model follows, all next to the bottom-right
\* corner of pad_size; randint(4, max_x * max_y) points are drawn, which need
\* not be distinct.
random_preset(rand_id, pad_size) ==
  LET max_x == pad_size.y - 1
      max_y == pad_size.x - 1
      draws == { {Point(max_x, max_y)},
                 {Point(max_x, max_y - 1), Point(max_x, max_y), Point(max_x - 1, max_y)},
                 {Point(max_x, max_y - 2), Point(max_x, max_y - 1), Point(max_x, max_y)},
                 {},
                 {Point(pad_size.y, max_y)},
                 {Point(max_x, pad_size.x)} }
  IN  {Preset(rand_id, "Random", S) : S \in
         {D \in draws : /\ 4 <= max_x * max_y
                        /\ D # {} /\ Cardinality(D) <= max_x * max_y
                        /\ \A p \in D : p.y \in 0..max_x /\ p.x \in 0..max_y}}

\* gol.get_all_presets(): the catalogs it can return, the static presets
\* followed by one Random preset; PRESETS is not modified.
get_all_presets ==
  {Append(StaticPresets, rand) :
     rand \in random_preset(Len(StaticPresets), DEFAULTS.universe_size)}

\* One pass of the 'while True' loop of get_user_preset_choice that never
\* looks at valid_indices.
menu_iteration_any_integer(m, user_input) ==
  LET read == [m EXCEPT !.inputs = Append(m.inputs, user_input)]
      parsed == python_int(user_input)
  IN  IF user_input = <<>>
        THEN [read EXCEPT !.pc = "done", !.returned = DEFAULTS.preset]
      ELSE IF ~parsed.ok
        THEN [read EXCEPT !.out = Append(m.out, "Invalid input. Please enter a number.")]
      ELSE [read EXCEPT !.pc = "done", !.returned = parsed.value]

\* One pass of the 'while True' loop of get_user_preset_choice on the answer
\* user_input.
menu_iteration(m, user_input) ==
  LET read == [m EXCEPT !.inputs = Append(m.inputs, user_input)]
      parsed == python_int(user_input)
      selected_index == parsed.value
  IN  IF user_input = <<>>
        THEN [read EXCEPT !.pc = "done", !.returned = DEFAULTS.preset]
      ELSE IF ~parsed.ok
        THEN [read EXCEPT !.out = Append(m.out, "Invalid input. Please enter a number.")]
      ELSE IF selected_index \in m.valid_indices
        THEN [read EXCEPT !.pc = "done", !.returned = selected_index]
      ELSE [read EXCEPT !.out = Append(m.out, "Invalid choice. Please try again.")]

\* The answers typed at the prompt: nothing, catalog ids, ids out of range,
\* a negative number, a fraction, a word, a number with a blank before it.
MenuTexts ==
  { <<>>, <<"0">>, <<"4">>, <<"7">>, <<"8">>, <<"2", "0">>, <<"-", "1">>,
    <<"-", "0">>, <<"1", ".", "5">>, <<"x">>, <<" ", "1">> }

\* get_user_preset_choice() is entered: valid_indices is computed.
MenuCall ==
  /\ menu.pc = "idle"
  /\ \E catalog \in get_all_presets :
       menu' = [menu EXCEPT !.pc = "prompt",
                   !.valid_indices = {catalog[i].idx : i \in 1..Len(catalog)}]
  /\ UNCHANGED <<PRESETS, universe_vars, universe_old, generation, ret, pure, start, loop>>

\* input(...) returns user_input and the loop body runs once.
MenuInput(user_input) ==
  /\ menu.pc = "prompt"
  /\ Len(menu.inputs) < MaxInputs
  /\ menu' = menu_iteration(menu, user_input)
  /\ UNCHANGED <<PRESETS, universe_vars, universe_old, generation, ret, pure, start, loop>>

NextMenu ==
  \/ MenuCall
  \/ \E user_input \in MenuTexts : MenuInput(user_input)

SpecMenu == Init /\ [][NextMenu]_vars

(* ------------- update on live cells assigned by the caller --------------- *)
\* The three cells in a row and in a column around a centre.
HTriple(centre) ==
  {Point(centre.y, centre.x - 1), centre, Point(centre.y, centre.x + 1)}

VTriple(centre) ==
  {Point(centre.y - 1, centre.x), centre, Point(centre.y + 1, centre.x)}

\* Centres in the middle of the pad, next to each edge and on the top and
\* bottom rows.
TripleCentres ==
  LET h == display_pad_size.y
      w == display_pad_size.x
  IN  {Point(r, c) : r \in {0, 1, 2, 10, h - 3, h - 2, h - 1},
                     c \in {1, 2, 11, w - 3, w - 2}}

\* The live cells test_update assigns to universe.live_cells, and a row of
\* three around each centre.
AssignedCells ==
  { {},
    {Point(10, 10)},
    {Point(10, 10), Point(10, 11), Point(10, 12)},
    {Point(10, 10), Point(10, 11), Point(9, 10)},
    {Point(0, 0), Point(0, 1), Point(2, 0)} }
    \cup {HTriple(centre) : centre \in TripleCentres}

\* The state after universe = Universe(0); universe.live_cells = cells.
InitUpdate ==
  /\ \E cells \in random_cells : PRESETS = append_random(StaticPresets, cells)
  /\ instance = 1
  /\ allocated = 1
  /\ universe = 1
  /\ initialized = TRUE
  /\ display_size = display_pad_size
  /\ live_cells \in AssignedCells
  /\ universe_old = {}
  /\ generation = 0
  /\ seed_kept = init_cells(display_pad_size, StaticPresets[1])
  /\ seed_dropped = {}
  /\ ret = [op |-> "assign", choice |-> NoChoice, res |-> Result("none", "", NoPreset)]
  /\ menu = MenuIdle
  /\ start = StartIdle
  /\ loop = LoopIdle
  /\ pure = NoCall

NextUpdate == Step

SpecUpdate == InitUpdate /\ [][NextUpdate]_vars

(* ------------------------ gol.main, GameOfLifeUI ------------------------ *)
\* GameOfLifeUI.pad_size, the size of the pad made by curses.newpad.
pad_size == display_pad_size

\* pad.addch(y, x, ch) raises curses.error: for a position outside the pad,
\* where nothing is written, and for the bottom-right corner of the pad,
\* where the character is written before the error is raised.
addch_raises(cell) ==
  \/ ~(0 <= cell.y /\ cell.y < pad_size.y /\ 0 <= cell.x /\ cell.x < pad_size.x)
  \/ (cell.y = pad_size.y - 1 /\ cell.x = pad_size.x - 1)

\* pad.addch(y, x, ch) changes the character at (y, x).
addch_writes(cell) ==
  0 <= cell.y /\ cell.y < pad_size.y /\ 0 <= cell.x /\ cell.x < pad_size.x

\* populate re-raising every curses.error, the one at the corner included.
populate_raises_at_corner(cells) ==
  \E cell \in cells : addch_raises(cell)

\* GameOfLifeUI.populate(live_cells) ends with curses.error: some addch
\* raised and the position is not the bottom-right corner.
populate_raises(cells) ==
  \E cell \in cells :
    /\ addch_raises(cell)
    /\ ~(cell.y = pad_size.y - 1 /\ cell.x = pad_size.x - 1)

\* The positions carrying the live-cell mark (A_REVERSE) after a populate
\* that did not raise.
populate(pad, cells) == pad \cup {cell \in cells : addch_writes(cell)}

\* clear_cells leaving the pad as it is.
clear_cells_none(pad, cells) == pad

\* GameOfLifeUI.clear_cells(cells): every position that addch writes loses
\* its mark; every curses.error is swallowed.
clear_cells(pad, cells) == pad \ {cell \in cells : addch_writes(cell)}

\* The cell the second loop of update() visits next: the first or the last
\* of the cells not yet visited, in the order of (y, x).
next_cell(cell_set, ascending) ==
  IF ascending
    THEN CHOOSE c \in cell_set :
           \A d \in cell_set : c.y < d.y \/ (c.y = d.y /\ c.x <= d.x)
    ELSE CHOOSE c \in cell_set :
           \A d \in cell_set : c.y > d.y \/ (c.y = d.y /\ c.x >= d.x)

\* The choice main is called with: the first preset, the default preset, the
\* Random preset, an id beyond the catalog, a negative id, a string.
MainChoices ==
  {IntChoice(0), IntChoice(DEFAULTS.preset), IntChoice(NStatic), IntChoice(NStatic + 1),
   IntChoice(-1), StrChoice}

\* main(stdscr, choice, refresh_rate) up to the loop: the pad is created,
\* universe = Universe(choice), universe_old = set().
MainStart(choice) ==
  /\ loop.pc = "idle"
  /\ Universe_call(choice, NStatic + MaxCalls)
  /\ universe_old' = {}
  /\ loop' = IF initialized'
               THEN [loop EXCEPT !.pc = "clear"]
               ELSE [loop EXCEPT !.pc = "raised", !.error = ret'.res.err]
  /\ UNCHANGED <<generation, menu, start, pure>>

\* ui.clear_cells(universe_old)
ClearCells ==
  /\ loop.pc = "clear"
  /\ loop' = [loop EXCEPT !.pc = "populate",
                          !.pad = clear_cells(loop.pad, universe_old),
                          !.cleared = Append(loop.cleared, universe_old)]
  /\ UNCHANGED <<PRESETS, universe_vars, universe_old, generation, ret, menu, start, pure>>

\* ui.populate(universe.live_cells); when it raises, the cells marked before
\* the failing one depend on the order in which the set is walked.
Populate ==
  /\ loop.pc = "populate"
  /\ IF populate_raises(live_cells)
       THEN \E marked \in SUBSET {cell \in live_cells : addch_writes(cell)} :
              loop' = [loop EXCEPT !.pc = "raised", !.error = "curses.error",
                                   !.pad = loop.pad \cup marked]
       ELSE loop' = [loop EXCEPT !.pc = "refresh",
                                 !.pad = populate(loop.pad, live_cells),
                                 !.drawn = Append(loop.drawn, live_cells)]
  /\ UNCHANGED <<PRESETS, universe_vars, universe_old, generation, ret, menu, start, pure>>

\* ui.refresh_pad(): the pad is copied to the screen.
RefreshPad ==
  /\ loop.pc = "refresh"
  /\ loop' = [loop EXCEPT !.pc = "save_old", !.frames = Append(loop.frames, loop.pad)]
  /\ UNCHANGED <<PRESETS, universe_vars, universe_old, generation, ret, menu, start, pure>>

\* The loop tail that does not save the current generation in universe_old.
SaveOld_keeps ==
  /\ loop.pc = "save_old"
  /\ generation < MaxGen
  /\ loop' = [loop EXCEPT !.pc = "update"]
  /\ UNCHANGED <<PRESETS, universe_vars, universe_old, generation, ret, menu, start, pure>>

\* universe_old = universe.live_cells
SaveOld ==
  /\ loop.pc = "save_old"
  /\ generation < MaxGen
  /\ universe_old' = live_cells
  /\ loop' = [loop EXCEPT !.pc = "update"]
  /\ UNCHANGED <<PRESETS, universe_vars, generation, ret, menu, start, pure>>

\* update() entered: new_cells = set(), cell_set is the live cells and all
\* their neighbours; the order in which cell_set will be walked is fixed.
UpdateBegin ==
  /\ loop.pc = "update"
  /\ \E ascending \in BOOLEAN :
       loop' = [loop EXCEPT
                  !.pc = "update_loop",
                  !.new_cells = {},
                  !.ascending = ascending,
                  !.cell_set = live_cells \cup
                     UNION {{neighbours(cell)[i] : i \in 1..8} : cell \in live_cells}]
  /\ UNCHANGED <<PRESETS, universe_vars, universe_old, generation, ret, menu, start, pure>>

\* One pass of 'for cell in cell_set' that changes self.live_cells in place.
UpdateCell_in_place ==
  /\ loop.pc = "update_loop"
  /\ loop.cell_set # {}
  /\ LET cell == next_cell(loop.cell_set, loop.ascending)
         live_count == Cardinality({i \in 1..8 : neighbours(cell)[i] \in live_cells})
         lives == /\ live_count = 3 \/ (live_count = 2 /\ cell \in live_cells)
                  /\ cell_in_range(display_size, cell)
     IN  /\ loop' = [loop EXCEPT
                       !.cell_set = loop.cell_set \ {cell},
                       !.new_cells = IF lives THEN loop.new_cells \cup {cell}
                                              ELSE loop.new_cells]
         /\ live_cells' = IF lives THEN live_cells \cup {cell} ELSE live_cells \ {cell}
  /\ UNCHANGED <<PRESETS, instance, allocated, universe, initialized, display_size,
                 seed_kept, seed_dropped, universe_old, generation, ret, menu, start, pure>>

\* One pass of 'for cell in cell_set' in update(): the cell is added to
\* new_cells if the rule lets it live and it is in range.
UpdateCell ==
  /\ loop.pc = "update_loop"
  /\ loop.cell_set # {}
  /\ LET cell == next_cell(loop.cell_set, loop.ascending)
         live_count == Cardinality({i \in 1..8 : neighbours(cell)[i] \in live_cells})
         lives == /\ live_count = 3 \/ (live_count = 2 /\ cell \in live_cells)
                  /\ cell_in_range(display_size, cell)
     IN  loop' = [loop EXCEPT
                    !.cell_set = loop.cell_set \ {cell},
                    !.new_cells = IF lives THEN loop.new_cells \cup {cell}
                                           ELSE loop.new_cells]
  /\ UNCHANGED <<PRESETS, universe_vars, universe_old, generation, ret, menu, start, pure>>

\* update() returns new_cells and main assigns it to universe.live_cells.
UpdateReturn ==
  /\ loop.pc = "update_loop"
  /\ loop.cell_set = {}
  /\ live_cells' = loop.new_cells
  /\ generation' = generation + 1
  /\ loop' = [loop EXCEPT !.pc = "clear", !.new_cells = {}, !.ascending = TRUE]
  /\ UNCHANGED <<PRESETS, instance, allocated, universe, initialized, display_size,
                 seed_kept, seed_dropped, universe_old, ret, menu, start, pure>>

NextMain ==
  \/ \E choice \in MainChoices : MainStart(choice)
  \/ ClearCells
  \/ Populate
  \/ RefreshPad
  \/ SaveOld
  \/ UpdateBegin
  \/ UpdateCell
  \/ UpdateReturn

SpecMain == Init /\ [][NextMain]_vars

\* The single thread of main runs on as long as it is not interrupted.
SpecMainFair == SpecMain /\ WF_vars(NextMain)

(* -------------------- __main__.main up to play(...) -------------------- *)
\* One pass of the loop of get_user_choice returning whatever integer was
\* typed.
get_user_choice_iteration_any_integer(st, user_input) ==
  LET read == [st EXCEPT !.inputs = Append(st.inputs, user_input)]
      parsed == python_int(user_input)
  IN  IF ~parsed.ok
        THEN [read EXCEPT !.pc = "raised", !.error = "ValueError"]
      ELSE [read EXCEPT !.pc = "accepted", !.accepted = parsed.value]

\* One pass of the 'while True' loop of gol.get_user_choice on the answer
\* user_input: int() raises ValueError on text that is no integer, which
\* 'except IndexError' does not catch.
get_user_choice_iteration(st, user_input) ==
  LET read == [st EXCEPT !.inputs = Append(st.inputs, user_input)]
      parsed == python_int(user_input)
      choice == parsed.value
  IN  IF ~parsed.ok
        THEN [read EXCEPT !.pc = "raised", !.error = "ValueError"]
      ELSE IF choice \in st.valid_indices
        THEN [read EXCEPT !.pc = "accepted", !.accepted = choice]
      ELSE [read EXCEPT !.out = Append(st.out, "Invalid choice. Please try again.")]

\* The answers typed at 'Select initial state: ': catalog ids, the ids after
\* the last one shown, an id far out of range, a negative number, a word,
\* nothing.
StartTexts ==
  { <<"0">>, <<"7">>, <<"8">>, <<"9">>, <<"2", "0">>, <<"-", "1">>, <<"x">>, <<>> }

\* The most presets PRESETS holds in a start-up: every call of get_preset
\* in it adds one.
MaxStartPresets == NStatic + 4

\* display_menu(): the idx and name of every preset get_preset() returns
\* is printed.
DisplayMenu ==
  /\ start.pc = "begin"
  /\ \E cells \in random_cells :
       /\ PRESETS' = append_random(PRESETS, cells)
       /\ start' = [start EXCEPT !.pc = "menu", !.path = "menu",
                      !.shown = {PRESETS'[i].idx : i \in 1..Len(PRESETS')}]
  /\ UNCHANGED <<universe_vars, universe_old, generation, ret, menu, loop, pure>>

\* get_user_choice() is entered: valid_indices is computed from get_preset().
GetUserChoiceCall ==
  /\ start.pc = "menu"
  /\ \E cells \in random_cells :
       /\ PRESETS' = append_random(PRESETS, cells)
       /\ start' = [start EXCEPT !.pc = "prompt",
                      !.valid_indices = {PRESETS'[i].idx : i \in 1..Len(PRESETS')}]
  /\ UNCHANGED <<universe_vars, universe_old, generation, ret, menu, loop, pure>>

\* input(...) returns user_input and the loop body of get_user_choice runs
\* once.
GetUserChoiceInput(user_input) ==
  /\ start.pc = "prompt"
  /\ Len(start.inputs) < MaxInputs
  /\ start' = get_user_choice_iteration(start, user_input)
  /\ UNCHANGED <<PRESETS, universe_vars, universe_old, generation, ret, menu, loop, pure>>

\* parser.parse_args() with '-p text' on the command line: argparse applies
\* valid_preset_id and exits when it raises.
ParseArgs(text) ==
  /\ start.pc = "begin"
  /\ \E draw1 \in random_cells, draw2 \in random_cells :
       LET out == main_valid_preset_id(text, PRESETS, draw1, draw2)
       IN  /\ PRESETS' = out.presets
           /\ start' = IF out.res.kind = "value"
                         THEN [start EXCEPT !.pc = "accepted", !.path = "args",
                                            !.inputs = <<text>>,
                                            !.accepted = out.choice.val]
                         ELSE [start EXCEPT !.pc = "raised", !.path = "args",
                                            !.inputs = <<text>>,
                                            !.error = out.res.err]
  /\ UNCHANGED <<universe_vars, universe_old, generation, ret, menu, loop, pure>>

\* play(choice=...) under curses.wrapper: universe = Universe(choice).
Play ==
  /\ start.pc = "accepted"
  /\ Universe_call(IntChoice(start.accepted), MaxStartPresets)
  /\ start' = IF initialized' THEN [start EXCEPT !.pc = "playing"]
                              ELSE [start EXCEPT !.pc = "raised", !.error = ret'.res.err]
  /\ UNCHANGED <<universe_old, generation, menu, loop, pure>>

NextStart ==
  \/ DisplayMenu
  \/ GetUserChoiceCall
  \/ \E user_input \in StartTexts : GetUserChoiceInput(user_input)
  \/ \E text \in IdTexts : ParseArgs(text)
  \/ Play

SpecStart == Init /\ [][NextStart]_vars

(* ------------------------------ properties ----------------------------- *)
\* 0 <= y <= H-1 and 0 <= x <= W-1 for bounds (H, W).
InBounds(size, c) ==
  /\ 0 <= c.y /\ c.y <= size.y - 1
  /\ 0 <= c.x /\ c.x <= size.x - 1

Offsets == {d \in (-1..1) \X (-1..1) : d # <<0, 0>>}

\* How many of the 8 cells around c are in L.
LiveNeighbourCount(c, L) ==
  Cardinality({d \in Offsets : Point(c.y + d[1], c.x + d[2]) \in L})

\* The rule of the game for cell c against the generation L.
ShouldLive(c, L) ==
  \/ LiveNeighbourCount(c, L) = 3
  \/ LiveNeighbourCount(c, L) = 2 /\ c \in L

\* The cells at distance at most n from a cell of L.
Around(L, n) ==
  UNION {{Point(c.y + dy, c.x + dx) : dy \in -n..n, dx \in -n..n} : c \in L}

\* Cells far from every preset and draw, inside and outside the pad.
FarCells ==
  {Point(0, 0), Point(-1, -1), Point(20, 70), Point(0, display_pad_size.x),
   Point(display_pad_size.y, 0), Point(display_pad_size.y, display_pad_size.x)}

\* The coordinates the rule is compared on: everything within two cells of
\* a live cell (the candidate set and one ring of cells beyond it) and the
\* far cells.
ProbeCells(L) == Around(L, 2) \cup FarCells

Corner == Point(display_pad_size.y - 1, display_pad_size.x - 1)

\* The catalog a get_preset call returns has one entry more than PRESETS had.
InvalidChoice(choice, catalog_size) ==
  \/ choice.type # "int"
  \/ choice.val < 0
  \/ choice.val >= catalog_size

\* C1: after an update, a coordinate is live exactly if it is inside the
\* bounds and the rule holds for it against the previous generation
\* (3 live neighbours, or 2 and itself live); this is so for the candidate
\* cells and for cells not adjacent to any live cell, and no cell outside
\* the compared coordinates is live.
C1_UpdateIsTheRuleWithinBounds ==
  generation > 0 =>
    /\ \A c \in ProbeCells(universe_old) :
         c \in live_cells <=> (InBounds(display_size, c) /\ ShouldLive(c, universe_old))
    /\ live_cells \subseteq ProbeCells(universe_old)

\* A cell outside the bounds had exactly 3 live neighbours, a dead cell was
\* born and a live cell survived.
C1_Witness ==
  /\ generation > 0
  /\ \E c \in ProbeCells(universe_old) :
       ~InBounds(display_size, c) /\ LiveNeighbourCount(c, universe_old) = 3
  /\ \E c \in live_cells : c \notin universe_old
  /\ \E c \in live_cells : c \in universe_old

\* C2: every live cell of the Universe lies in 0..H-1 x 0..W-1 for
\* display_size (H, W), after seeding from any preset and after any number
\* of main-loop steps.
C2_LiveCellsInsideBounds ==
  \A cell \in live_cells :
    /\ 0 <= cell.y /\ cell.y <= display_size.y - 1
    /\ 0 <= cell.x /\ cell.x <= display_size.x - 1

\* Seeded from a Random preset on the bottom edge, one step later, with a
\* cell below the pad that the rule would bring to life.
C2_Witness ==
  /\ initialized
  /\ generation > 0
  /\ seed_kept \in RandomDraws
  /\ live_cells # {}
  /\ \E c \in Around(universe_old, 1) :
       c.y = display_size.y /\ ShouldLive(c, universe_old)

\* C3: a catalog returned by get_preset holds exactly the static presets
\* followed by exactly one 'Random' preset.
C3_CatalogIsStaticPlusOneRandom ==
  (ret.op = "get_preset" /\ ret.res.kind = "catalog") =>
    /\ Len(PRESETS) = NStatic + 1
    /\ SubSeq(PRESETS, 1, NStatic) = StaticPresets
    /\ PRESETS[Len(PRESETS)].name = "Random"
    /\ Cardinality({i \in 1..Len(PRESETS) : PRESETS[i].name = "Random"}) = 1

\* C4: the preset at position i of the catalog has idx i (positions counted
\* from 0), and a get_preset(i) that returns a Preset returns one with idx i.
C4_IdxEqualsPosition ==
  /\ \A i \in 1..Len(PRESETS) : PRESETS[i].idx = i - 1
  /\ ret.res.kind = "preset" => ret.res.preset.idx = ret.choice.val

\* Two requests were made and the Random preset of the second was fetched
\* by its identifier.
C4_Witness ==
  /\ Len(PRESETS) = NStatic + 2
  /\ ret.op = "get_preset"
  /\ ret.res.kind = "preset"
  /\ ret.choice.val = NStatic + 1
  /\ ret.res.preset.name = "Random"

\* C5: Universe(choice) with an integer choice outside [0, catalog_size)
\* raises an error, whether or not a Universe was initialised before.
C5_OutOfRangeChoiceFails ==
  [][(ret'.op = "Universe" /\ ret'.choice.type = "int"
        /\ InvalidChoice(ret'.choice, Len(PRESETS) + 1))
       => (ret'.res.kind = "error" /\ live_cells' = live_cells)]_vars

\* C6: a Universe(choice) request with an invalid choice (out of range or
\* not an integer) leaves live_cells exactly as it was.
C6_InvalidChoiceKeepsLiveCells ==
  [][(ret'.op = "Universe" /\ InvalidChoice(ret'.choice, Len(PRESETS) + 1))
       => live_cells' = live_cells]_vars

\* An invalid request was made on a seeded Universe with live cells.
C6_Witness ==
  /\ initialized
  /\ live_cells # {}
  /\ ret.op = "Universe"
  /\ InvalidChoice(ret.choice, Len(PRESETS) + 1)

\* C7: every Universe(choice) with a valid choice, the first and any later
\* one, sets live_cells to the cells of preset[choice] that are in range.
C7_EveryInitialisationSeeds ==
  (ret.op = "Universe" /\ ret.choice.type = "int"
     /\ 0 <= ret.choice.val /\ ret.choice.val < Len(PRESETS)) =>
    live_cells = {cell \in PRESETS[ret.choice.val + 1].cells :
                    InBounds(display_pad_size, cell)}

C9_CornerRemovedAtInit ==
  (ret.op = "Universe" /\ ret.res.kind = "preset") => Corner \notin live_cells

C11_NeighboursAreTheEightAround ==
  pure.fn = "neighbours" =>
    LET r == pure.cell.y
        c == pure.cell.x
        out == pure.result
    IN  /\ Len(out) = 8
        /\ out[1] = Point(r - 1, c - 1) /\ out[2] = Point(r, c - 1)
        /\ out[3] = Point(r + 1, c - 1) /\ out[4] = Point(r - 1, c)
        /\ out[5] = Point(r + 1, c)     /\ out[6] = Point(r - 1, c + 1)
        /\ out[7] = Point(r, c + 1)     /\ out[8] = Point(r + 1, c + 1)
        /\ \A i, j \in 1..Len(out) : i # j => out[i] # out[j]
        /\ \A i \in 1..Len(out) : out[i] # pure.cell

\* neighbours was called for the top-left cell and yielded negative coordinates.
C11_Witness ==
  /\ pure.fn = "neighbours"
  /\ pure.cell = Point(0, 0)
  /\ pure.result[1] = Point(-1, -1)

\* C12: update() of an empty live_cells is empty: once live_cells is empty in
\* the main loop, every later generation is empty.
C12_EmptyStaysEmpty ==
  [][(initialized /\ live_cells = {} /\ generation' = generation + 1)
       => live_cells' = {}]_vars

\* The simulation died out and a further update was made on the empty set.
C12_Witness ==
  /\ initialized
  /\ generation >= 2
  /\ universe_old = {}
  /\ live_cells = {}

\* The 3x3 neighbourhood of the centre lies inside the bounds.
NeighbourhoodInside(size, centre) ==
  /\ 1 <= centre.y /\ centre.y <= size.y - 2
  /\ 1 <= centre.x /\ centre.x <= size.x - 2

\* C13: for a centre whose 3x3 neighbourhood is inside the bounds, update()
\* of the horizontal triple is the vertical triple and update() of the
\* vertical triple is the horizontal triple again (period 2).
C13_BlinkerHasPeriodTwo ==
  generation > 0 =>
    \A centre \in universe_old :
      NeighbourhoodInside(display_size, centre) =>
        /\ universe_old = HTriple(centre) => live_cells = VTriple(centre)
        /\ universe_old = VTriple(centre) => live_cells = HTriple(centre)

\* The triple of the documented example after two updates: back in a row.
C13_Witness ==
  /\ generation = 2
  /\ universe_old = {Point(9, 11), Point(10, 11), Point(11, 11)}
  /\ live_cells = {Point(10, 10), Point(10, 11), Point(10, 12)}

\* C15: at most one Universe object exists: every Universe(...) that returns,
\* the first and every later one, returns the first object created, which is
\* the one Universe._instance holds.
C15_SingleUniverseInstance ==
  /\ allocated <= 1
  /\ instance \in {0, 1}
  /\ universe # 0 => (universe = 1 /\ universe = instance)

\* A second construction, made on the initialised Universe, returned the
\* first object.
C15_Witness ==
  /\ initialized
  /\ ret.op = "Universe"
  /\ ret.res.kind = "none"
  /\ universe = 1
  /\ allocated = 1

\* C16: the bounds held by an initialised Universe are the configured
\* default universe size DEFAULTS.universe_size.
C16_DisplaySizeIsDefault ==
  initialized => display_size = DEFAULTS.universe_size

\* A number in the inclusive range [0, 10].
InRefreshRange(x) == x.kind = "num" /\ 0 <= x.n /\ x.n <= 10 * x.d

\* C17: the refresh-rate validators accept a value exactly if it lies in
\* [0, 10] and return it unchanged (the number the text denotes, for the
\* validators that take text); every other value is rejected with an error.
C17_RefreshRateAcceptedIffInRange ==
  /\ pure.fn = "valid_refresh_rate" =>
       /\ pure.result.kind = "ok" <=> InRefreshRange(pure.arg)
       /\ pure.result.kind = "ok" => pure.result.value = pure.arg
       /\ pure.result.kind # "ok" => pure.result.kind = "error"
  /\ pure.fn \in {"valid_refresh_rate_string", "__main__.valid_refresh_rate"} =>
       LET parsed == python_float(pure.arg)
       IN  /\ pure.result.kind = "ok" <=> (parsed.ok /\ InRefreshRange(parsed.value))
           /\ pure.result.kind = "ok" =>
                (pure.result.value = parsed.value /\ InRefreshRange(pure.result.value))
           /\ pure.result.kind # "ok" => pure.result.kind = "error"

\* The upper end of the range, 10, was accepted.
C17_Witness ==
  /\ pure.fn = "valid_refresh_rate"
  /\ pure.arg = Num(10, 1)
  /\ pure.result.kind = "ok"
  /\ pure.result.value = Num(10, 1)

\* C18: valid_preset_id accepts an integer exactly if 0 <= value < N, with
\* N the number of static presets plus one, on every call.
C18_PresetIdAcceptedIffInCatalog ==
  (ret.op = "valid_preset_id" /\ ret.choice.type = "int") =>
    (ret.res.kind = "value" <=> (0 <= ret.choice.val /\ ret.choice.val < NStatic + 1))

\* The text of an integer that is the idx of a preset of the catalog (the
\* static presets and one Random).
NamesCatalogId(text) ==
  /\ python_int(text).ok
  /\ python_int(text).value \in 0..NStatic

\* C19: get_user_preset_choice returns exactly on the first answer that is
\* empty (returning DEFAULTS.preset) or an integer equal to the idx of a
\* catalog preset (returning that integer); on every other answer it prints
\* an error and prompts again; whatever it returns is a catalog id.
C19_MenuReturnsFirstValidAnswer ==
  [][(menu.pc = "prompt" /\ Len(menu'.inputs) = Len(menu.inputs) + 1) =>
       LET user_input == menu'.inputs[Len(menu'.inputs)]
       IN  /\ user_input = <<>> =>
                (menu'.pc = "done" /\ menu'.returned = DEFAULTS.preset)
           /\ (user_input # <<>> /\ NamesCatalogId(user_input)) =>
                (menu'.pc = "done" /\ menu'.returned = python_int(user_input).value)
           /\ (user_input # <<>> /\ ~NamesCatalogId(user_input)) =>
                /\ menu'.pc = "prompt"
                /\ menu'.returned = -1
                /\ Len(menu'.out) = Len(menu.out) + 1
                /\ menu'.out[Len(menu'.out)] \in
                     {"Invalid input. Please enter a number.",
                      "Invalid choice. Please try again."}
           /\ menu'.pc = "done" =>
                (menu'.returned \in 0..NStatic /\ menu'.out = menu.out)]_vars

\* After a word and an id out of range, both answered with an error, the
\* third answer selected the Random preset.
C19_Witness ==
  /\ menu.pc = "done"
  /\ menu.inputs = << <<"x">>, <<"8">>, <<"7">> >>
  /\ Len(menu.out) = 2
  /\ menu.returned = 7

\* A Random preset produced for bounds size: between 1 and H * W cells, rows
\* within the height and columns within the width.
RandomWithin(preset, size) ==
  /\ 1 <= Cardinality(preset.cells)
  /\ Cardinality(preset.cells) <= size.y * size.x
  /\ \A cell \in preset.cells :
       /\ 0 <= cell.y /\ cell.y <= size.y - 1
       /\ 0 <= cell.x /\ cell.x <= size.x - 1

\* C20: every Random preset produced for bounds (H, W) has at least 1 and at
\* most H * W cells, each with 0 <= y <= H - 1 and 0 <= x <= W - 1; get_preset
\* produces them for display_pad_size(), constants.random_preset for the
\* pad_size it is given.
C20_RandomPresetWithinBounds ==
  /\ \A i \in 1..Len(PRESETS) :
       PRESETS[i].name = "Random" => RandomWithin(PRESETS[i], display_pad_size)
  /\ \A preset \in random_preset(NStatic, DEFAULTS.universe_size) :
       RandomWithin(preset, DEFAULTS.universe_size)

\* get_preset has appended a Random preset of three cells that reaches the
\* last row and the last column of the pad.
C20_Witness ==
  \E i \in 1..Len(PRESETS) :
    /\ PRESETS[i].name = "Random"
    /\ Cardinality(PRESETS[i].cells) = 3
    /\ Point(display_pad_size.y - 1, display_pad_size.x - 1) \in PRESETS[i].cells
    /\ Point(display_pad_size.y - 2, display_pad_size.x - 1) \in PRESETS[i].cells

\* The generation that follows L by the rule of the game inside the bounds
\* of the Universe.
RuleGeneration(L) ==
  {c \in Around(L, 1) : InBounds(display_size, c) /\ ShouldLive(c, L)}

\* C21: universe.live_cells is only ever replaced wholesale: from the first
\* iteration of the main loop on, no step changes it except the assignment
\* of update()'s finished result, which is the complete next generation; at
\* every point in between, inside update() included, it is the complete
\* current generation.
C21_LiveCellsReplacedWholesale ==
  [][loop.pc \notin {"idle", "raised"} =>
       \/ live_cells' = live_cells
       \/ /\ loop.pc = "update_loop" /\ loop.cell_set = {}
          /\ live_cells' = RuleGeneration(live_cells)
          /\ loop'.pc = "clear"]_vars

\* Inside the second update() of a run, with part of the next generation
\* already in new_cells and live_cells still the generation shown.
C21_Witness ==
  /\ loop.pc = "update_loop"
  /\ generation = 1
  /\ loop.cell_set # {}
  /\ loop.new_cells # {}
  /\ loop.new_cells # RuleGeneration(live_cells)
  /\ live_cells = universe_old
  /\ live_cells = loop.drawn[2]

\* What the main loop has cleared, drawn and refreshed so far: one of each
\* per iteration, in this order, before the one update() of the iteration;
\* the generations drawn start with the seeded preset and each follows the
\* one before by the rule; the set cleared is the generation drawn in the
\* iteration before, and empty in the first.
RenderAdvanceOrder ==
  loop.pc \notin {"idle", "raised"} =>
    /\ Len(loop.cleared) = IF loop.pc = "clear" THEN generation ELSE generation + 1
    /\ Len(loop.drawn) =
         IF loop.pc \in {"clear", "populate"} THEN generation ELSE generation + 1
    /\ Len(loop.frames) =
         IF loop.pc \in {"clear", "populate", "refresh"} THEN generation
                                                           ELSE generation + 1
    /\ \A i \in 1..Len(loop.drawn) :
         loop.drawn[i] = IF i = 1 THEN seed_kept ELSE RuleGeneration(loop.drawn[i - 1])
    /\ \A i \in 1..Len(loop.cleared) :
         loop.cleared[i] = IF i = 1 THEN {} ELSE loop.drawn[i - 1]

\* C22: the main loop strictly alternates render and advance: each
\* iteration clears the previous generation, draws the current one,
\* refreshes and advances by exactly one update(); generation 0 is drawn
\* before any update, every generation is drawn once and in order, the set
\* cleared in iteration n is generation n - 1 (empty in iteration 0); and
\* the loop goes on: once entered, it reaches the refresh of every
\* generation up to MaxGen.
C22_RenderAdvanceAlternate ==
  /\ []RenderAdvanceOrder
  /\ (loop.pc = "clear") ~> (Len(loop.frames) = MaxGen + 1)

\* The third iteration has drawn generation 2, after clearing generation 1,
\* and the three generations differ.
C22_Witness ==
  /\ loop.pc = "refresh"
  /\ generation = 2
  /\ Len(loop.drawn) = 3
  /\ loop.cleared[3] = loop.drawn[2]
  /\ loop.drawn[1] # loop.drawn[2]
  /\ loop.drawn[2] # loop.drawn[3]
  /\ loop.drawn[3] # {}

\* c is a cell of L or one of the 8 cells around a cell of L.
IsCandidate(c, L) ==
  \E l \in L : /\ c.y - l.y \in -1..1
               /\ c.x - l.x \in -1..1

\* The position on which c would land if the edges of the pad were joined.
Wrapped(c) == Point(c.y % display_size.y, c.x % display_size.x)

\* C23: every cell of the set update() returned is a cell that was live or
\* one of the 8 neighbours of a cell that was live, and lies inside the
\* bounds; a cell that should live outside the bounds is not in the set,
\* and the position opposite to it is in the set only if the rule itself
\* lets that position live.
C23_UpdateWithinCandidatesAndBounds ==
  generation > 0 =>
    /\ \A c \in live_cells :
         IsCandidate(c, universe_old) /\ InBounds(display_size, c)
    /\ \A c \in Around(universe_old, 1) :
         (ShouldLive(c, universe_old) /\ ~InBounds(display_size, c)) =>
           /\ c \notin live_cells
           /\ Wrapped(c) \in live_cells => ShouldLive(Wrapped(c), universe_old)

\* Three cells in a row on the bottom edge: the cell below the middle one
\* should live, was dropped, and the first row of the pad stayed empty.
C23_Witness ==
  /\ generation > 0
  /\ ret.op = "update"
  /\ \E c \in Around(universe_old, 1) :
       /\ ShouldLive(c, universe_old)
       /\ c.y = display_size.y
       /\ Wrapped(c).y = 0
       /\ Wrapped(c) \notin live_cells
  /\ \E c \in live_cells : c.y = display_size.y - 1

\* The idx values of the presets in PRESETS.
CatalogIds == {PRESETS[i].idx : i \in 1..Len(PRESETS)}

\* C24: gol.get_user_choice never ends with an exception; it returns only
\* an integer that is the idx of a catalog preset, and every answer that is
\* not accepted has been answered with an error message.
C24_GetUserChoiceNeverRaises ==
  start.path = "menu" =>
    /\ ~(start.pc = "raised" /\ start.error = "ValueError")
    /\ start.pc = "accepted" =>
         /\ start.accepted \in CatalogIds
         /\ Len(start.out) = Len(start.inputs) - 1
    /\ start.pc = "prompt" => Len(start.out) = Len(start.inputs)
    /\ \A i \in 1..Len(start.out) :
         start.out[i] \in {"Invalid input. Please enter a number.",
                           "Invalid choice. Please try again."}

\* C27: in the interactive start-up every identifier get_user_choice
\* accepts was printed by display_menu: the valid indices equal the
\* identifiers shown.
C27_AcceptedIdsWereShown ==
  start.path = "menu" =>
    /\ start.pc \in {"prompt", "accepted", "playing"} => start.valid_indices = start.shown
    /\ start.pc \in {"accepted", "playing"} => start.accepted \in start.shown

\* C25: after populate() in every iteration of the main loop, and until
\* live_cells is replaced, the pad positions carrying the live-cell mark are
\* exactly universe.live_cells; the pad copied to the screen by each refresh
\* is the generation drawn in that iteration.
C25_PadShowsLiveCells ==
  /\ loop.pc \in {"refresh", "save_old", "update", "update_loop"} =>
       loop.pad = live_cells
  /\ \A i \in 1..Len(loop.frames) : loop.frames[i] = loop.drawn[i]

\* In a later iteration, after populate: a cell of the previous generation
\* died and is erased, another one is still alive and is marked.
C25_Witness ==
  /\ loop.pc = "refresh"
  /\ generation > 0
  /\ \E c \in universe_old : c \notin live_cells /\ c \notin loop.pad
  /\ \E c \in universe_old : c \in live_cells /\ c \in loop.pad

\* C26: populate() never raises during the main loop: the bounds of the
\* Universe are the size of the pad, every cell handed to populate lies
\* inside the pad, the curses.error of the bottom-right corner is swallowed,
\* and a curses.error at a position outside the pad is raised again.
C26_PopulateNeverRaises ==
  /\ loop.error # "curses.error"
  /\ initialized => display_size = pad_size
  /\ loop.pc = "populate" => \A c \in live_cells : InBounds(pad_size, c)
  /\ ~populate_raises({Corner})
  /\ \A c \in FarCells : ~InBounds(pad_size, c) => populate_raises({c, Corner})

\* populate has drawn a generation that holds the bottom-right corner, and
\* the loop went on to the refresh.
C26_Witness ==
  /\ loop.pc = "refresh"
  /\ loop.error = ""
  /\ Corner \in loop.drawn[Len(loop.drawn)]
  /\ Corner \in loop.pad
  /\ addch_raises(Corner)

\* C28: every identifier accepted by the start-up validation
\* (get_user_choice in the menu path, __main__.valid_preset_id in the
\* command-line path) makes the first Universe(choice) succeed, and
\* live_cells is seeded from the preset of PRESETS whose idx is that
\* identifier.
C28_AcceptedIdSeedsItsPreset ==
  /\ ~(start.pc = "raised" /\ start.error \in {"IndexError", "AssertionError", "TypeError"})
  /\ start.pc = "playing" =>
       /\ initialized
       /\ ret.op = "Universe" /\ ret.res.kind = "preset"
       /\ ret.res.preset.idx = start.accepted
       /\ \E i \in 1..Len(PRESETS) : PRESETS[i] = ret.res.preset
       /\ \A i \in 1..Len(PRESETS) :
            PRESETS[i].idx = start.accepted =>
              live_cells = {c \in PRESETS[i].cells : InBounds(display_size, c)}

\* In the menu path, after one rejected answer, the id of the Random preset
\* that display_menu listed was accepted and seeded the Universe.
C28_Witness ==
  /\ start.pc = "playing"
  /\ start.path = "menu"
  /\ Len(start.inputs) = 2
  /\ start.accepted = NStatic
  /\ live_cells \in RandomDraws
  /\ live_cells = PRESETS[NStatic + 1].cells

====
